---- MODULE Spec2Model ----
(***************************************************************************)
(* BackupManager.backup_file (src/backup_telegram_bot/backup.py) against   *)
(* an SMB share.  Strings are sequences of one-character strings, so that  *)
(* rstrip, rsplit, strftime and the f-strings are computed, not assumed.   *)
(* The share (directories, objects) and the outcome of every remote call   *)
(* and of open() are the environment: each outcome the call site can see   *)
(* (a result, a falsy result, an exception) is a nondeterministic choice.  *)
(***************************************************************************)
EXTENDS Integers, Sequences, FiniteSets, TLC

\* ------------------------------------------------------------------ bounds
\* Calls that can be in flight at once, calls made in a run, seconds that pass.
NumCalls == 2
MaxInvocations == 2
MaxTicks == 1

Calls == 1..NumCalls

\* ------------------------------------------------------------------ inputs
\* BACKUP_DIRECTORY values: the default "/", "/b" and "/b/".
BackupDirs == { <<"/">>, <<"/", "b">>, <<"/", "b", "/">> }

\* original_filename values: "n", "r.p", "a.b.c", ".h".
Filenames == { <<"n">>, <<"r", ".", "p">>, <<"a", ".", "b", ".", "c">>, <<".", "h">> }

\* The bytes of the local file at file_path.
LocalFiles == { <<1>>, <<2, 3>> }

\* The date of the run and the second of the day the clock starts at (12:00:59).
Today == [Y |-> 2024, m |-> 1, d |-> 1]
StartSecond == (12 * 3600) + 59

VARIABLES
    backup_directory,   \* self.backup_directory (config.BACKUP_DIRECTORY)
    dirs,               \* directories existing on the share
    dir_creator,        \* the call (by number) whose createDirectory succeeded, or 0
    files,              \* objects on the share: remote path -> bytes
    now,                \* datetime.now(), second of the day
    ticks,              \* seconds elapsed since the start
    pc,                 \* per call: position in backup_file
    invocations,        \* backup_file calls made so far
    file_bytes,         \* per call: the bytes of the file at argument file_path
    original_filename,  \* per call: argument original_filename
    conn,               \* per call: "none", "open" or "closed"
    upload_path,        \* per call: local variable upload_path
    timestamp,          \* per call: local variable timestamp
    result,             \* per call: "none", "True", "False" or "raised"
    ops,                \* per call: the calls made, <<operation, outcome>>
    environ,            \* os.environ: the SMB_* settings, "None" when unset
    authorized_user_id, \* config.AUTHORIZED_USER_ID
    update,             \* the update being handled, or handled last
    updates,            \* updates handled so far
    bot_pc,             \* position in process_file, "idle" outside it
    manager,            \* BackupManager() of this update: "none", "ok", "ValueError"
    temp_file,          \* the temporary file of process_file: "none", "exists", "deleted"
    status_message,     \* the status message of process_file as the user sees it
    replies             \* the other messages sent for this update

\* The state of the chat layer (main.py).
bot == << environ, authorized_user_id, update, updates, bot_pc, manager, temp_file,
          status_message, replies >>

vars == << backup_directory, dirs, dir_creator, files, now, ticks, pc, invocations, file_bytes,
           original_filename, conn, upload_path, timestamp, result, ops, bot >>

\* ------------------------------------------------------------- pure helpers
\* Mutant of Rstrip: the rstrip('/') of lines 97, 103 and 121 left out.
RstripNothing(s) == s

\* str.rstrip('/')
RECURSIVE Rstrip(_)
Rstrip(s) ==
    IF s # <<>> /\ s[Len(s)] = "/" THEN Rstrip(SubSeq(s, 1, Len(s) - 1)) ELSE s

\* Index of the last '.' of s at or before i, 0 when there is none.
RECURSIVE LastDot(_, _)
LastDot(s, i) ==
    IF i = 0 THEN 0 ELSE IF s[i] = "." THEN i ELSE LastDot(s, i - 1)

\* Index of the first '.' of s at or after i, 0 when there is none.
RECURSIVE FirstDot(_, _)
FirstDot(s, i) ==
    IF i > Len(s) THEN 0 ELSE IF s[i] = "." THEN i ELSE FirstDot(s, i + 1)

\* Mutant of RSplit: str.split('.', 1), which splits at the first '.'.
RSplitFirst(s) ==
    LET i == FirstDot(s, 1)
    IN  IF i = 0 THEN << s >>
        ELSE << SubSeq(s, 1, i - 1), SubSeq(s, i + 1, Len(s)) >>

\* str.rsplit('.', 1): split once, from the right.
RSplit(s) ==
    LET i == LastDot(s, Len(s))
    IN  IF i = 0 THEN << s >>
        ELSE << SubSeq(s, 1, i - 1), SubSeq(s, i + 1, Len(s)) >>

DigitChars == << "0", "1", "2", "3", "4", "5", "6", "7", "8", "9" >>

\* n in decimal, zero-padded to width w (the %Y, %m, %d, %H, %M, %S fields).
RECURSIVE Digits(_, _)
Digits(n, w) ==
    IF w = 0 THEN <<>> ELSE Digits(n \div 10, w - 1) \o << DigitChars[(n % 10) + 1] >>

\* datetime.now().strftime("_%Y%m%d_%H%M%S") at second-of-day t.
Strftime(t) ==
    << "_" >> \o Digits(Today.Y, 4) \o Digits(Today.m, 2) \o Digits(Today.d, 2)
    \o << "_" >> \o Digits(t \div 3600, 2) \o Digits((t \div 60) % 60, 2)
    \o Digits(t % 60, 2)

\* Mutant of RemotePath: the '/' between directory and filename left out.
RemotePathNoSep(dir, filename) == Rstrip(dir) \o filename

\* f"{self.backup_directory.rstrip('/')}/{filename}"
RemotePath(dir, filename) == Rstrip(dir) \o << "/" >> \o filename

\* Mutant of NewFilename: the extension branch taken without the length test.
NewFilenameNoCheck(name, ts) ==
    LET name_parts == RSplit(name)
    IN  name_parts[1] \o ts \o << "." >> \o name_parts[Len(name_parts)]

\* The new filename on a collision (lines 110-119).
NewFilename(name, ts) ==
    LET name_parts == RSplit(name)
    IN  IF Len(name_parts) > 1
        THEN name_parts[1] \o ts \o << "." >> \o name_parts[2]
        ELSE name \o ts

\* The directory createDirectory, getAttributes and storeFile work in.
BackupDir == Rstrip(backup_directory)

Log(c, op, out) == ops' = [ops EXCEPT ![c] = Append(@, << op, out >>)]

\* -------------------------------------------------------------------- Init
\* The names config.py reads for the share, and the four BackupManager requires.
SettingNames == {"SMB_USERNAME", "SMB_PASSWORD", "SMB_SERVER", "SMB_SERVER_NAME", "SMB_SHARE"}

\* An environment with every setting given.
FullEnviron == [k \in SettingNames |-> "x"]

\* No update is being handled.
NoUpdate == [sender |-> 0, command |-> "none", media |-> FALSE, forwarded |-> FALSE,
             file_name |-> <<>>, bytes |-> <<>>]

BotIdle ==
    /\ update = NoUpdate
    /\ updates = 0
    /\ bot_pc = "idle"
    /\ manager = "none"
    /\ temp_file = "none"
    /\ status_message = <<>>
    /\ replies = <<>>

\* The share and the call slots before the first call.
InitShare ==
    /\ backup_directory \in BackupDirs
    /\ dirs \in { {<<>>}, {<<>>, Rstrip(backup_directory)} }
    /\ dir_creator = 0
    /\ files = [p \in {} |-> <<>>]
    /\ now = StartSecond
    /\ ticks = 0
    /\ pc = [c \in Calls |-> "idle"]
    /\ invocations = 0
    /\ file_bytes = [c \in Calls |-> <<>>]
    /\ original_filename = [c \in Calls |-> <<>>]
    /\ conn = [c \in Calls |-> "none"]
    /\ upload_path = [c \in Calls |-> <<>>]
    /\ timestamp = [c \in Calls |-> <<>>]
    /\ result = [c \in Calls |-> "none"]
    /\ ops = [c \in Calls |-> <<>>]

\* backup_file called on its own: complete settings, no update in the chat layer.
Init ==
    /\ InitShare
    /\ environ = FullEnviron
    /\ authorized_user_id = 7
    /\ BotIdle

\* ------------------------------------------------------------------ actions
Running(c) == pc[c] \notin {"idle", "done"}

\* backup_file is entered with its two arguments, in the lowest free slot;
\* nothing of an earlier call is kept (a BackupManager holds only the settings).
Enter(c) ==
    /\ ~Running(c)
    /\ \A d \in Calls : d < c => Running(d)
    /\ invocations < MaxInvocations
    /\ invocations' = invocations + 1
    /\ \E bytes \in LocalFiles, name \in Filenames :
        /\ file_bytes' = [file_bytes EXCEPT ![c] = bytes]
        /\ original_filename' = [original_filename EXCEPT ![c] = name]
    /\ pc' = [pc EXCEPT ![c] = "connect"]
    /\ conn' = [conn EXCEPT ![c] = "none"]
    /\ upload_path' = [upload_path EXCEPT ![c] = <<>>]
    /\ timestamp' = [timestamp EXCEPT ![c] = <<>>]
    /\ result' = [result EXCEPT ![c] = "none"]
    /\ ops' = [ops EXCEPT ![c] = <<>>]
    /\ UNCHANGED << backup_directory, dirs, dir_creator, files, now, ticks >>

\* process_file calls backup_file with no await inside it (main.py line 393),
\* so the calls of the bot run one after the other.
Invoke(c) ==
    /\ \A d \in Calls : ~Running(d)
    /\ Enter(c)
    /\ UNCHANGED bot

\* Mutant of Connect: the test of line 91 left out, the call goes on without a session.
ConnectNoCheck(c) ==
    /\ pc[c] = "connect"
    /\ \E out \in {"ok", "refused", "raise"} :
        /\ Log(c, "connect", out)
        /\ conn' = [conn EXCEPT ![c] = IF out = "ok" THEN "open" ELSE "none"]
    /\ pc' = [pc EXCEPT ![c] = "mkdir"]
    /\ UNCHANGED << bot, backup_directory, dirs, dir_creator, files, now, ticks, invocations,
                    file_bytes, original_filename, upload_path, timestamp, result >>

\* Lines 90-92 with connect (lines 53-77): a session, or None when
\* conn.connect returns a falsy value ("refused") or anything raises ("raise").
Connect(c) ==
    /\ pc[c] = "connect"
    /\ \E out \in {"ok", "refused", "raise"} :
        /\ Log(c, "connect", out)
        /\ IF out = "ok"
           THEN /\ conn' = [conn EXCEPT ![c] = "open"]
                /\ pc' = [pc EXCEPT ![c] = "mkdir"]
                /\ UNCHANGED result
           ELSE /\ result' = [result EXCEPT ![c] = "False"]
                /\ pc' = [pc EXCEPT ![c] = "done"]
                /\ UNCHANGED conn
    /\ UNCHANGED << bot, backup_directory, dirs, dir_creator, files, now, ticks, invocations, file_bytes,
                    original_filename, upload_path, timestamp >>

\* Mutant of MkDir: the inner try of lines 96-100 left out, so that an error of
\* createDirectory reaches the handler of line 135.
MkDirRaises(c) ==
    /\ pc[c] = "mkdir"
    /\ \E out \in {"ok", "exists", "denied"} :
        /\ out = "ok" => BackupDir \notin dirs
        /\ out = "exists" => BackupDir \in dirs
        /\ Log(c, "createDirectory", out)
        /\ dirs' = IF out = "ok" THEN dirs \cup {BackupDir} ELSE dirs
        /\ dir_creator' = IF out = "ok" THEN invocations ELSE dir_creator
        /\ pc' = [pc EXCEPT ![c] = IF out = "ok" THEN "probe" ELSE "handler"]
    /\ upload_path' = [upload_path EXCEPT ![c] = RemotePath(backup_directory, original_filename[c])]
    /\ UNCHANGED << bot, backup_directory, files, now, ticks, invocations, file_bytes,
                    original_filename, conn, timestamp, result >>

\* Lines 95-103: createDirectory, every exception swallowed, then upload_path.
\* "ok" creates the directory, "exists" is the error for a directory that is
\* there, "denied" is any other error (the directory is left as it was).
MkDir(c) ==
    /\ pc[c] = "mkdir"
    /\ \E out \in {"ok", "exists", "denied"} :
        /\ out = "ok" => BackupDir \notin dirs
        /\ out = "exists" => BackupDir \in dirs
        /\ Log(c, "createDirectory", out)
        /\ dirs' = IF out = "ok" THEN dirs \cup {BackupDir} ELSE dirs
        /\ dir_creator' = IF out = "ok" THEN invocations ELSE dir_creator
    /\ upload_path' = [upload_path EXCEPT ![c] = RemotePath(backup_directory, original_filename[c])]
    /\ pc' = [pc EXCEPT ![c] = "probe"]
    /\ UNCHANGED << bot, backup_directory, files, now, ticks, invocations, file_bytes,
                    original_filename, conn, timestamp, result >>

\* Mutant of Probe: the try of lines 106-124 left out, so that an exception of
\* getAttributes reaches the handler of line 135.
ProbeRaises(c) ==
    /\ pc[c] = "probe"
    /\ \E out \in {"info", "falsy", "absent", "error"} :
        /\ out = "info" => upload_path[c] \in DOMAIN files
        /\ out = "absent" => upload_path[c] \notin DOMAIN files
        /\ Log(c, "getAttributes", out)
        /\ IF out = "info"
           THEN /\ timestamp' = [timestamp EXCEPT ![c] = Strftime(now)]
                /\ upload_path' = [upload_path EXCEPT ![c] =
                       RemotePath(backup_directory,
                                  NewFilename(original_filename[c], Strftime(now)))]
           ELSE UNCHANGED << timestamp, upload_path >>
        /\ pc' = [pc EXCEPT ![c] = IF out \in {"absent", "error"} THEN "handler" ELSE "open"]
    /\ UNCHANGED << bot, backup_directory, dirs, dir_creator, files, now, ticks, invocations, file_bytes,
                    original_filename, conn, result >>

\* Lines 105-124: getAttributes.  "info" is a truthy result (the object is
\* there), "falsy" a falsy result, "absent" the error for an object that is
\* not there, "error" any other exception; all but "info" keep upload_path.
Probe(c) ==
    /\ pc[c] = "probe"
    /\ \E out \in {"info", "falsy", "absent", "error"} :
        /\ out = "info" => upload_path[c] \in DOMAIN files
        /\ out = "absent" => upload_path[c] \notin DOMAIN files
        /\ Log(c, "getAttributes", out)
        /\ IF out = "info"
           THEN /\ timestamp' = [timestamp EXCEPT ![c] = Strftime(now)]
                /\ upload_path' = [upload_path EXCEPT ![c] =
                       RemotePath(backup_directory,
                                  NewFilename(original_filename[c], Strftime(now)))]
           ELSE UNCHANGED << timestamp, upload_path >>
    /\ pc' = [pc EXCEPT ![c] = "open"]
    /\ UNCHANGED << bot, backup_directory, dirs, dir_creator, files, now, ticks, invocations, file_bytes,
                    original_filename, conn, result >>

\* Line 127: open(file_path, "rb"); an error goes to the handler of line 135.
Open(c) ==
    /\ pc[c] = "open"
    /\ \E out \in {"ok", "error"} :
        /\ Log(c, "open", out)
        /\ pc' = [pc EXCEPT ![c] = IF out = "ok" THEN "store" ELSE "handler"]
    /\ UNCHANGED << bot, backup_directory, dirs, dir_creator, files, now, ticks, invocations, file_bytes,
                    original_filename, conn, upload_path, timestamp, result >>

\* The share after storeFile wrote n bytes of the local file to path.
Written(path, bytes, n) ==
    [p \in DOMAIN files \cup {path} |->
        IF p = path THEN SubSeq(bytes, 1, n) ELSE files[p]]

\* Mutant of Store: an upload that does not replace an object that is there
\* (the file created exclusively), failing instead.
StoreKeepsExisting(c) ==
    /\ pc[c] = "store"
    /\ \E out \in {"ok", "error"} :
        /\ out = "ok" => BackupDir \in dirs
        /\ Log(c, "storeFile", out)
        /\ IF out = "ok"
           THEN /\ files' = IF upload_path[c] \in DOMAIN files THEN files
                            ELSE Written(upload_path[c], file_bytes[c], Len(file_bytes[c]))
                /\ pc' = [pc EXCEPT ![c] = "close"]
           ELSE /\ files' = files
                /\ pc' = [pc EXCEPT ![c] = "handler"]
    /\ UNCHANGED << bot, backup_directory, dirs, dir_creator, now, ticks, invocations, file_bytes,
                    original_filename, conn, upload_path, timestamp, result >>

\* Line 129: storeFile.  "ok" writes the whole file and needs the directory;
\* "error" raises, having written nothing or a truncated object.
Store(c) ==
    /\ pc[c] = "store"
    /\ \E out \in {"ok", "error"} :
        /\ out = "ok" => BackupDir \in dirs
        /\ Log(c, "storeFile", out)
        /\ IF out = "ok"
           THEN /\ files' = Written(upload_path[c], file_bytes[c], Len(file_bytes[c]))
                /\ pc' = [pc EXCEPT ![c] = "close"]
           ELSE /\ \/ files' = files
                   \/ /\ BackupDir \in dirs
                      /\ \E n \in 0..(Len(file_bytes[c]) - 1) :
                            files' = Written(upload_path[c], file_bytes[c], n)
                /\ pc' = [pc EXCEPT ![c] = "handler"]
    /\ UNCHANGED << bot, backup_directory, dirs, dir_creator, now, ticks, invocations, file_bytes,
                    original_filename, conn, upload_path, timestamp, result >>

\* conn.close(): "ok" closes the session; when close raises the session is
\* left closed or open.
CloseSession(c, out, left) ==
    conn' = [conn EXCEPT ![c] = IF out = "ok" THEN "closed" ELSE left]

\* Lines 131-133: close, return True; a raising close goes to the handler.
CloseReturn(c) ==
    /\ pc[c] = "close"
    /\ \E out \in {"ok", "raise"}, left \in {"open", "closed"} :
        /\ Log(c, "close", out)
        /\ CloseSession(c, out, left)
        /\ IF out = "ok"
           THEN /\ result' = [result EXCEPT ![c] = "True"]
                /\ pc' = [pc EXCEPT ![c] = "done"]
           ELSE /\ pc' = [pc EXCEPT ![c] = "handler"]
                /\ UNCHANGED result
    /\ UNCHANGED << bot, backup_directory, dirs, dir_creator, files, now, ticks, invocations, file_bytes,
                    original_filename, upload_path, timestamp >>

\* Mutant of Handler: the handler also removes the directory the call created.
HandlerRollsBack(c) ==
    /\ pc[c] = "handler"
    /\ \E out \in {"ok", "raise"}, left \in {"open", "closed"} :
        /\ ops' = [ops EXCEPT ![c] = @ \o << << "deleteDirectory", "ok" >>, << "close", out >> >>]
        /\ conn' = [conn EXCEPT ![c] = IF out = "ok" THEN "closed" ELSE left]
        /\ result' = [result EXCEPT ![c] = IF out = "ok" THEN "False" ELSE "raised"]
    /\ dirs' = IF dir_creator = invocations THEN dirs \ {BackupDir} ELSE dirs
    /\ pc' = [pc EXCEPT ![c] = "done"]
    /\ UNCHANGED << bot, backup_directory, dir_creator, files, now, ticks, invocations, file_bytes,
                    original_filename, upload_path, timestamp >>

\* Mutant of Handler: lines 137-138 left out, the handler only returns False.
HandlerNoClose(c) ==
    /\ pc[c] = "handler"
    /\ result' = [result EXCEPT ![c] = "False"]
    /\ pc' = [pc EXCEPT ![c] = "done"]
    /\ UNCHANGED << bot, backup_directory, dirs, dir_creator, files, now, ticks, invocations,
                    file_bytes, original_filename, conn, upload_path, timestamp, ops >>

\* Lines 135-139: the handler closes and returns False; a close that raises
\* here leaves backup_file as an exception.
Handler(c) ==
    /\ pc[c] = "handler"
    /\ \E out \in {"ok", "raise"}, left \in {"open", "closed"} :
        /\ Log(c, "close", out)
        /\ CloseSession(c, out, left)
        /\ result' = [result EXCEPT ![c] = IF out = "ok" THEN "False" ELSE "raised"]
    /\ pc' = [pc EXCEPT ![c] = "done"]
    /\ UNCHANGED << bot, backup_directory, dirs, dir_creator, files, now, ticks, invocations, file_bytes,
                    original_filename, upload_path, timestamp >>

\* A second passes on the clock.  The clock is read at lines 114 and 118 only,
\* so the seconds that matter are those that pass before a call's probe.
Tick ==
    /\ ticks < MaxTicks
    /\ \E c \in Calls : pc[c] = "probe"
    /\ now' = now + 1
    /\ ticks' = ticks + 1
    /\ UNCHANGED << bot, backup_directory, dirs, dir_creator, files, pc, invocations, file_bytes,
                    original_filename, conn, upload_path, timestamp, result, ops >>

Next ==
    \/ \E c \in Calls : Invoke(c)
    \/ \E c \in Calls : Connect(c)
    \/ \E c \in Calls : MkDir(c)
    \/ \E c \in Calls : Probe(c)
    \/ \E c \in Calls : Open(c)
    \/ \E c \in Calls : Store(c)
    \/ \E c \in Calls : CloseReturn(c)
    \/ \E c \in Calls : Handler(c)
    \/ Tick

Spec == Init /\ [][Next]_vars

\* Two backup_file calls on one share at the same time (two bot processes, or
\* a caller that runs backup_file in threads): a second call, for the desired
\* filename of the call in flight, is entered between two steps of that call.
InvokeConcurrently(c) ==
    /\ Cardinality({ d \in Calls : Running(d) }) = 1
    /\ Enter(c)
    /\ \E d \in Calls : Running(d) /\ original_filename'[c] = original_filename[d]
    /\ UNCHANGED bot

NextConcurrent ==
    \/ Next
    \/ \E c \in Calls : InvokeConcurrently(c)

\* The share of the concurrent runs: BACKUP_DIRECTORY "/b", there or not yet.
InitConcurrent == Init /\ backup_directory = << "/", "b" >>

SpecConcurrent == InitConcurrent /\ [][NextConcurrent]_vars

\* ------------------------------------------------------------ the chat layer
share == << backup_directory, dirs, dir_creator, files, now, ticks >>

calls == << pc, invocations, file_bytes, original_filename, conn, upload_path,
            timestamp, result, ops >>

\* The ids updates come from.
Senders == {7, 8}

\* config.py lines 20-24: os.environ.get(name), with "" for an unset SMB_SERVER_NAME.
Setting(name) ==
    IF name = "SMB_SERVER_NAME" /\ environ[name] = "None" THEN "" ELSE environ[name]

\* Mutant of MissingSettings: the server display-name required as well.
MissingSettingsWithName == { k \in SettingNames : Setting(k) \in {"None", ""} }

\* _check_settings (backup.py lines 39-47): the required settings that are falsy.
MissingSettings ==
    { k \in {"SMB_USERNAME", "SMB_PASSWORD", "SMB_SERVER", "SMB_SHARE"} :
        Setting(k) \in {"None", ""} }

\* BackupManager() (backup.py lines 26-51): ValueError when a setting is missing.
Construct == IF MissingSettings # {} THEN "ValueError" ELSE "ok"

\* Mutant of CheckUserAuthorized: only whether an authorized id is set is tested.
CheckAuthorizedIdSet(user_id) == authorized_user_id # 0

\* check_user_authorized (main.py lines 30-36)
CheckUserAuthorized(user_id) ==
    IF authorized_user_id = 0 THEN FALSE ELSE user_id = authorized_user_id

\* The handler an update goes to: the first filter that matches, in the order
\* of registration (main.py lines 421-438).
HandlerOf(u) ==
    IF u.command = "status" THEN "status_command"
    ELSE IF u.media THEN "handle_media"
    ELSE IF u.forwarded THEN "handle_forwarded_message"
    ELSE "handle_generic_message"

\* Whether the handler of u calls process_file: the typed handlers (lines
\* 106-268), handle_forwarded_message (271-304), handle_generic_message (307-371).
CallsProcessFile(u) ==
    /\ HandlerOf(u) # "status_command"
    /\ CheckUserAuthorized(u.sender)
    /\ HandlerOf(u) = "handle_forwarded_message" => u.forwarded
    /\ u.media

\* The updates that can arrive.
Updates ==
    { [sender |-> s, command |-> "status", media |-> FALSE, forwarded |-> FALSE,
       file_name |-> <<>>, bytes |-> <<>>] : s \in Senders }
    \cup
    { [sender |-> s, command |-> "none", media |-> TRUE, forwarded |-> f,
       file_name |-> n, bytes |-> b] :
         s \in Senders, f \in BOOLEAN, n \in Filenames, b \in LocalFiles }
    \cup
    { [sender |-> s, command |-> "none", media |-> FALSE, forwarded |-> f,
       file_name |-> <<>>, bytes |-> <<>>] : s \in Senders, f \in BOOLEAN }

\* The except block of process_file (lines 403-409): the error goes to the
\* user with its text, unless that reply fails too.
Except(detail) ==
    /\ \E sent \in BOOLEAN :
          replies' = IF sent THEN Append(replies, << "Error processing file", detail >>)
                     ELSE replies
    /\ bot_pc' = "returned"

\* status_command (lines 75-103) for an authorized sender: BackupManager(),
\* connect, close and the reply; an exception leaves the handler.
StatusCommand ==
    /\ manager' = Construct
    /\ IF Construct = "ValueError"
       THEN replies' = <<>>
       ELSE \E out \in {"ok", "refused", "close raises"} :
               replies' = IF out = "ok" THEN << << "status", "SMB connection successful" >> >>
                          ELSE IF out = "refused" THEN << << "status", "SMB connection failed" >> >>
                          ELSE <<>>

\* An update arrives and its handler runs up to process_file.
Dispatch ==
    /\ bot_pc \in {"idle", "returned"}
    /\ updates < MaxInvocations
    /\ updates' = updates + 1
    /\ \E u \in Updates :
        /\ update' = u
        /\ temp_file' = "none"
        /\ status_message' = <<>>
        /\ IF CallsProcessFile(u)
           THEN /\ bot_pc' = "start"
                /\ manager' = "none"
                /\ replies' = <<>>
           ELSE /\ bot_pc' = "idle"
                /\ IF HandlerOf(u) = "status_command" /\ CheckUserAuthorized(u.sender)
                   THEN StatusCommand
                   ELSE /\ manager' = "none"
                        /\ replies' =
                             IF ~CheckUserAuthorized(u.sender)
                             THEN IF HandlerOf(u) = "handle_generic_message" THEN <<>>
                                  ELSE << << "Sorry, you are not authorized to use this bot." >> >>
                             ELSE IF HandlerOf(u) = "handle_forwarded_message"
                             THEN << << "No files found in the forwarded message" >> >>
                             ELSE <<>>
    /\ UNCHANGED << environ, authorized_user_id, share, calls >>

\* Lines 377-382: the "Processing" reply and the temporary file.
ProcessStart ==
    /\ bot_pc = "start"
    /\ \E out \in {"ok", "error"} :
        IF out = "ok"
        THEN /\ status_message' = << "Processing", update.file_name >>
             /\ temp_file' = "exists"
             /\ bot_pc' = "download"
             /\ UNCHANGED replies
        ELSE /\ Except("reply_text")
             /\ UNCHANGED << status_message, temp_file >>
    /\ UNCHANGED << environ, authorized_user_id, update, updates, manager, share, calls >>

\* Lines 384-386: get_file and download_to_drive.
ProcessDownload ==
    /\ bot_pc = "download"
    /\ \E out \in {"ok", "error"} :
        IF out = "ok"
        THEN /\ bot_pc' = "edit"
             /\ UNCHANGED replies
        ELSE Except("download")
    /\ UNCHANGED << environ, authorized_user_id, update, updates, manager, temp_file,
                    status_message, share, calls >>

\* Line 389: the status message becomes "Backing up".
ProcessEdit ==
    /\ bot_pc = "edit"
    /\ \E out \in {"ok", "error"} :
        IF out = "ok"
        THEN /\ status_message' = << "Backing up", update.file_name >>
             /\ bot_pc' = "construct"
             /\ UNCHANGED replies
        ELSE /\ Except("edit_text")
             /\ UNCHANGED status_message
    /\ UNCHANGED << environ, authorized_user_id, update, updates, manager, temp_file,
                    share, calls >>

\* Line 392: BackupManager().
ProcessConstruct ==
    /\ bot_pc = "construct"
    /\ manager' = Construct
    /\ IF Construct = "ok"
       THEN /\ bot_pc' = "backup"
            /\ UNCHANGED replies
       ELSE Except("Missing required SMB settings")
    /\ UNCHANGED << environ, authorized_user_id, update, updates, temp_file,
                    status_message, share, calls >>

\* Line 393: backup_file(file_path, filename) is entered.
ProcessBackup(c) ==
    /\ bot_pc = "backup"
    /\ \A d \in Calls : ~Running(d)
    /\ Enter(c)
    /\ original_filename'[c] = update.file_name
    /\ file_bytes'[c] = update.bytes
    /\ bot_pc' = "in backup_file"
    /\ UNCHANGED << environ, authorized_user_id, update, updates, manager, temp_file,
                    status_message, replies >>

\* Lines 393-401: backup_file is back; the temporary file is removed and the
\* status message says how it went.  An exception out of backup_file goes to
\* the except block at once.
ProcessReturn(c) ==
    /\ bot_pc = "in backup_file"
    /\ pc[c] = "done"
    /\ IF result[c] = "raised"
       THEN /\ Except("close")
            /\ UNCHANGED << temp_file, status_message >>
       ELSE /\ temp_file' = "deleted"
            /\ \E out \in {"ok", "error"} :
                IF out = "ok"
                THEN /\ status_message' =
                          << IF result[c] = "True" THEN "Successfully backed up"
                             ELSE "Failed to back up", update.file_name >>
                     /\ bot_pc' = "returned"
                     /\ UNCHANGED replies
                ELSE /\ Except("edit_text")
                     /\ UNCHANGED status_message
    /\ UNCHANGED << environ, authorized_user_id, update, updates, manager, share, calls >>

NextBot ==
    \/ Dispatch
    \/ ProcessStart
    \/ ProcessDownload
    \/ ProcessEdit
    \/ ProcessConstruct
    \/ \E c \in Calls : ProcessBackup(c)
    \/ \E c \in Calls : ProcessReturn(c)
    \/ \E c \in Calls : Connect(c)
    \/ \E c \in Calls : MkDir(c)
    \/ \E c \in Calls : Probe(c)
    \/ \E c \in Calls : Open(c)
    \/ \E c \in Calls : Store(c)
    \/ \E c \in Calls : CloseReturn(c)
    \/ \E c \in Calls : Handler(c)
    \/ Tick

\* The bot with complete settings, BACKUP_DIRECTORY "/b", AUTHORIZED_USER_ID set or not.
InitBot ==
    /\ InitShare
    /\ backup_directory = << "/", "b" >>
    /\ environ = FullEnviron
    /\ authorized_user_id \in {0, 7}
    /\ BotIdle

SpecBot == InitBot /\ [][NextBot]_vars

\* The bot under every environment: each setting unset, empty or given.
InitConfig ==
    /\ InitShare
    /\ backup_directory = << "/" >>
    /\ environ \in [SettingNames -> {"None", "", "x"}]
    /\ authorized_user_id = 7
    /\ BotIdle

SpecConfig == InitConfig /\ [][NextBot]_vars

\* ------------------------------------------------------- what a call has done
Saw(c, op, out) == \E i \in 1..Len(ops[c]) : ops[c][i] = << op, out >>

Did(c, op) == \E i \in 1..Len(ops[c]) : ops[c][i][1] = op

HasDot(name) == \E i \in 1..Len(name) : name[i] = "."

\* YYYYMMDD_HHMMSS: fifteen characters, digits but for the '_' in the middle.
IsTimestamp(ts) ==
    /\ Len(ts) = 15
    /\ ts[9] = "_"
    /\ \A i \in (1..15) \ {9} : \E k \in 1..10 : ts[i] = DigitChars[k]

\* ------------------------------------------------------------------ claims

\* C1: a storeFile call never writes over an object that already exists on the
\* share: the bytes of every object there before the call are the same after
\* it, whatever the probe answered.
C1_NeverOverwrites ==
    [][\A c \in Calls :
         (pc[c] = "store" /\ pc'[c] # "store") =>
            \A p \in DOMAIN files : files'[p] = files[p]]_vars

C3_NoSessionNoCalls ==
    \A c \in Calls :
        (Saw(c, "connect", "refused") \/ Saw(c, "connect", "raise")) =>
            /\ pc[c] = "done"
            /\ result[c] = "False"
            /\ Len(ops[c]) = 1
            /\ conn[c] = "none"

C3_Witness ==
    \E c \in Calls : Saw(c, "connect", "refused") /\ pc[c] = "done"

\* C4: a call that has ended has returned a boolean: no exception leaves
\* backup_file.
C4_AlwaysReturnsBoolean ==
    \A c \in Calls : pc[c] = "done" => result[c] \in {"True", "False"}

\* C5: a call that has ended returned True exactly when its storeFile call
\* completed without error.
C5_TrueIffStored ==
    \A c \in Calls :
        pc[c] = "done" => (result[c] = "True" <=> Saw(c, "storeFile", "ok"))

\* C6: when storeFile is about to be invoked the backup directory exists on
\* the share, whatever createDirectory answered.
C6_DirectoryExistsAtUpload ==
    \A c \in Calls : pc[c] = "store" => BackupDir \in dirs

\* C7: for a filename with a '.', once the probe reported a collision the
\* upload path names stem + "_" + timestamp + "." + extension, the split
\* being at the last '.'.
C7_TimestampBeforeLastDot ==
    \A c \in Calls :
        (Saw(c, "getAttributes", "info") /\ HasDot(original_filename[c])) =>
            LET name == original_filename[c]
                i == CHOOSE k \in 1..Len(name) :
                        name[k] = "." /\ \A j \in (k + 1)..Len(name) : name[j] # "."
                stem == SubSeq(name, 1, i - 1)
                extension == SubSeq(name, i + 1, Len(name))
            IN  \E ts \in { Tail(timestamp[c]) } :
                    /\ IsTimestamp(ts)
                    /\ upload_path[c] = BackupDir \o << "/" >> \o stem \o << "_" >>
                                        \o ts \o << "." >> \o extension

\* A collision on "a.b.c" whose upload went through.
C7_Witness ==
    \E c \in Calls :
        /\ Saw(c, "getAttributes", "info")
        /\ original_filename[c] = << "a", ".", "b", ".", "c" >>
        /\ Saw(c, "storeFile", "ok")

\* C8: for a filename with no '.', once the probe reported a collision the
\* upload path names original + "_" + timestamp and nothing more.
C8_TimestampAppended ==
    \A c \in Calls :
        (Saw(c, "getAttributes", "info") /\ ~HasDot(original_filename[c])) =>
            \E ts \in { Tail(timestamp[c]) } :
                /\ IsTimestamp(ts)
                /\ upload_path[c] = BackupDir \o << "/" >> \o original_filename[c]
                                    \o << "_" >> \o ts

\* A collision on "n" whose upload went through.
C8_Witness ==
    \E c \in Calls :
        /\ Saw(c, "getAttributes", "info")
        /\ original_filename[c] = << "n" >>
        /\ Saw(c, "storeFile", "ok")

\* No remote call and no open() of the call failed for a reason of its own:
\* the share is reachable and the local file readable.
FaultFree(c) ==
    \A i \in 1..Len(ops[c]) : ops[c][i][2] \in {"ok", "exists", "absent"}

\* C9: with a reachable share and no object at the candidate path, the call
\* returns True and the object at backup directory/filename holds the bytes of
\* the local file.
C9_FreshRoundTrip ==
    \A c \in Calls :
        (pc[c] = "done" /\ FaultFree(c) /\ Saw(c, "getAttributes", "absent")) =>
            LET path == BackupDir \o << "/" >> \o original_filename[c]
            IN  /\ result[c] = "True"
                /\ path \in DOMAIN files
                /\ files[path] = file_bytes[c]

C9_Witness ==
    \E c \in Calls :
        /\ pc[c] = "done"
        /\ FaultFree(c)
        /\ Saw(c, "getAttributes", "absent")
        /\ file_bytes[c] = << 2, 3 >>
        /\ backup_directory = << "/", "b", "/" >>

\* C10: an error of createDirectory ('already exists' or any other) is
\* swallowed: the call goes on to the probe and to the upload step, and when
\* it does not return True something else failed (open, storeFile or close).
C10_MkdirErrorSwallowed ==
    \A c \in Calls :
        (Saw(c, "createDirectory", "exists") \/ Saw(c, "createDirectory", "denied")) =>
            /\ pc[c] # "mkdir"
            /\ Len(ops[c]) >= 3 => ops[c][3][1] = "getAttributes"
            /\ Len(ops[c]) >= 4 => ops[c][4][1] = "open"
            /\ pc[c] = "done" => Len(ops[c]) >= 4
            /\ (pc[c] = "done" /\ result[c] # "True") =>
                    \/ Saw(c, "open", "error")
                    \/ Saw(c, "storeFile", "error")
                    \/ Saw(c, "close", "raise")

\* The second call finds the directory the first call created, and returns True.
C10_Witness ==
    \E c \in Calls :
        /\ invocations = 2
        /\ dir_creator = 1
        /\ Saw(c, "createDirectory", "exists")
        /\ result[c] = "True"

\* C11: when the local file cannot be opened, the call returns False, makes no
\* storeFile call and calls close on its session exactly once.
C11_UnreadableFileFailsCleanly ==
    \A c \in Calls :
        (pc[c] = "done" /\ Saw(c, "open", "error")) =>
            /\ result[c] = "False"
            /\ ~Did(c, "storeFile")
            /\ Cardinality({ i \in 1..Len(ops[c]) : ops[c][i][1] = "close" }) = 1

\* C13: when getAttributes raises (the object is absent, or the probe itself
\* fails) the upload path stays backup directory/filename with no timestamp,
\* the call goes on to open the local file, and a completed storeFile has put
\* the local bytes at that path.
C13_ProbeErrorKeepsPath ==
    \A c \in Calls :
        (Saw(c, "getAttributes", "absent") \/ Saw(c, "getAttributes", "error")) =>
            /\ upload_path[c] = BackupDir \o << "/" >> \o original_filename[c]
            /\ timestamp[c] = <<>>
            /\ pc[c] \in {"open", "store", "close", "handler", "done"}
            /\ Len(ops[c]) >= 4 => ops[c][4][1] = "open"
            /\ pc[c] = "done" => Did(c, "open")
            /\ Saw(c, "storeFile", "ok") =>
                    /\ upload_path[c] \in DOMAIN files
                    /\ files[upload_path[c]] = file_bytes[c]

\* A second call whose probe failed and whose upload went through.
C13_Witness ==
    \E c \in Calls :
        /\ invocations = 2
        /\ Saw(c, "getAttributes", "error")
        /\ Saw(c, "storeFile", "ok")
        /\ result[c] = "True"

\* The place of a remote operation in the order of C15; 0 for open().
OpRank(op) ==
    CASE op = "connect" -> 1
      [] op = "createDirectory" -> 2
      [] op = "getAttributes" -> 3
      [] op = "storeFile" -> 4
      [] op = "close" -> 5
      [] OTHER -> 0

\* C15: the remote operations of a call come in the order connect,
\* createDirectory, getAttributes, storeFile, close, each at most once, so
\* that nothing is done on the session after close.
C15_FixedOrderOnceEach ==
    \A c \in Calls :
        \A i, j \in 1..Len(ops[c]) :
            (i < j /\ OpRank(ops[c][i][1]) > 0 /\ OpRank(ops[c][j][1]) > 0) =>
                OpRank(ops[c][i][1]) < OpRank(ops[c][j][1])

\* C16 as stated: the candidate path is backup_directory + "/" + filename,
\* also for a backup_directory that ends with "/".
C16_PathIsPlainConcatenation ==
    \A c \in Calls :
        pc[c] = "probe" =>
            upload_path[c] = backup_directory \o << "/" >> \o original_filename[c]

\* C16 as amended: the candidate path is backup_directory without its trailing
\* "/" characters, then "/", then the filename; it is the path probed and,
\* when the probe reports no collision, the path uploaded to.
C16_PathIsStrippedConcatenation ==
    \A c \in Calls :
        (pc[c] = "probe" \/ (pc[c] \in {"open", "store", "close", "handler", "done"}
                             /\ Did(c, "getAttributes")
                             /\ ~Saw(c, "getAttributes", "info"))) =>
            LET dir == backup_directory
                k == CHOOSE n \in 0..Len(dir) :
                        /\ \A j \in (n + 1)..Len(dir) : dir[j] = "/"
                        /\ n > 0 => dir[n] # "/"
            IN  upload_path[c] = SubSeq(dir, 1, k) \o << "/" >> \o original_filename[c]

\* An upload with no collision under BACKUP_DIRECTORY "/b/".
C16_Witness ==
    \E c \in Calls :
        /\ backup_directory = << "/", "b", "/" >>
        /\ Saw(c, "getAttributes", "absent")
        /\ Saw(c, "storeFile", "ok")

\* C17: nothing is rolled back: a directory the call created is still on the
\* share whatever failed afterwards, and the only operations a call makes are
\* connect, createDirectory, getAttributes, open, storeFile and close.
C17_NoRollback ==
    \A c \in Calls :
        /\ Saw(c, "createDirectory", "ok") => BackupDir \in dirs
        /\ \A i \in 1..Len(ops[c]) :
              ops[c][i][1] \in {"connect", "createDirectory", "getAttributes",
                                "open", "storeFile", "close"}

\* The call created the directory, its upload failed and it has returned.
C17_Witness ==
    \E c \in Calls :
        /\ pc[c] = "done"
        /\ Saw(c, "createDirectory", "ok")
        /\ Saw(c, "storeFile", "error")
        /\ result[c] = "False"

\* C14: with two calls in flight for one filename, a storeFile that completes
\* leaves its own bytes at its upload path whatever was there (the later write
\* wins), so two calls that both saw no collision both store to the original
\* path and both return True: C14_Witness is that run.
C14_LaterWriteWins ==
    [][\A c \in Calls :
         (pc[c] = "store" /\ pc'[c] = "close") =>
            /\ files'[upload_path[c]] = file_bytes[c]
            /\ \A d \in Calls \ {c} :
                  (Running(d) /\ ~Saw(d, "getAttributes", "info")
                   /\ ~Saw(c, "getAttributes", "info")
                   /\ original_filename[d] = original_filename[c]
                   /\ pc[d] \in {"open", "store", "close"}) =>
                      upload_path[d] = upload_path[c]]_vars

\* Both probes found the path free, both calls stored to it and returned True;
\* the object holds the bytes of the call that wrote last and the bytes of the
\* other call are nowhere on the share.
C14_Witness ==
    /\ invocations = 2
    /\ \A c \in {1, 2} :
        /\ pc[c] = "done"
        /\ result[c] = "True"
        /\ Saw(c, "getAttributes", "absent")
        /\ upload_path[c] = BackupDir \o << "/" >> \o original_filename[c]
    /\ upload_path[1] = upload_path[2]
    /\ file_bytes[1] # file_bytes[2]
    /\ files[upload_path[1]] = file_bytes[1]
    /\ \A p \in DOMAIN files : files[p] # file_bytes[2]


\* ------------------------------------------------- claims on the chat layer
Mandatory == {"SMB_USERNAME", "SMB_PASSWORD", "SMB_SERVER", "SMB_SHARE"}

\* C12: when a mandatory setting (username, password, server address, share
\* name) is absent, every construction of a BackupManager raises the
\* configuration error and nothing is ever connected or transferred; when the
\* four are given, construction never raises, with or without the server
\* display-name.
C12_IncompleteConfigNeverConnects ==
    /\ (\E k \in Mandatory : environ[k] = "None") =>
          /\ manager \in {"none", "ValueError"}
          /\ invocations = 0
          /\ \A c \in Calls : ops[c] = <<>> /\ pc[c] = "idle"
          /\ DOMAIN files = {}
          /\ \A i \in 1..Len(replies) : replies[i][1] # "status"
    /\ (\A k \in Mandatory : environ[k] = "x") => manager \in {"none", "ok"}

\* process_file got as far as BackupManager() with the share name unset and
\* the display-name given: the constructor raised.
C12_Witness ==
    /\ environ["SMB_SHARE"] = "None"
    /\ environ["SMB_SERVER_NAME"] = "x"
    /\ \A k \in Mandatory \ {"SMB_SHARE"} : environ[k] = "x"
    /\ temp_file = "exists"
    /\ manager = "ValueError"
    /\ bot_pc = "returned"

\* C18: when process_file has returned, the user sees nothing but either a
\* success message naming the name the file was stored under (the timestamped
\* one after a collision) or a failure message without the text of the error.
C18_OnlyStoredPathOrGenericFailure ==
    bot_pc = "returned" =>
        /\ replies = <<>>
        /\ status_message # <<>>
        /\ \/ status_message[1] = "Failed to back up"
           \/ /\ status_message[1] = "Successfully backed up"
              /\ \E c \in Calls :
                    /\ pc[c] = "done"
                    /\ result[c] = "True"
                    /\ RemotePath(backup_directory, status_message[2]) = upload_path[c]

\* C19: an update whose sender is not AUTHORIZED_USER_ID, or any update while
\* AUTHORIZED_USER_ID is 0, never gets into process_file and never makes
\* status_command build a BackupManager and connect: no temporary file, no
\* status message, no call of backup_file.
C19_UnauthorizedNeverProcessed ==
    (update # NoUpdate /\ (authorized_user_id = 0 \/ update.sender # authorized_user_id)) =>
        /\ bot_pc = "idle"
        /\ manager = "none"
        /\ temp_file = "none"
        /\ status_message = <<>>
        /\ \A c \in Calls : ~Running(c)
        /\ \A i \in 1..Len(replies) : replies[i][1] # "status"

\* After a backup for the authorized user, a file from another sender was
\* turned away with the "not authorized" reply.
C19_Witness ==
    /\ authorized_user_id = 7
    /\ invocations = 1
    /\ \E c \in Calls : pc[c] = "done" /\ result[c] = "True"
    /\ update.sender = 8
    /\ update.media
    /\ updates = 2
    /\ replies = << << "Sorry, you are not authorized to use this bot." >> >>

\* C20: when process_file has returned, the temporary file it made is gone.
C20_TempFileDeletedOnReturn ==
    bot_pc = "returned" => temp_file # "exists"

====
